---- MODULE Spec2Model ----
(***************************************************************************)
(* A model of the wiring-documentation pack builder: the plan-page         *)
(* pipeline (find plan PDFs, crop, riffle shuffle, room data pages, the    *)
(* two confirmation gates, final assembly), the riffle shuffle called on   *)
(* its own, and the crop-table lookup with its name normalisation.         *)
(*                                                                         *)
(* A text (file name, tab, room name) is a sequence of characters, a       *)
(* character a one-element string or the name of a code point.  A PDF is   *)
(* the sequence of its pages; a page records what it shows.  A Python dict *)
(* is a record of its keys in insertion order and its mapping.             *)
(***************************************************************************)
EXTENDS Integers, Sequences, FiniteSets, TLC

VARIABLES
    pc,               \* where the run is: the next stage of build, or a call
    tabsFile,         \* the tab list file: its lines
    planDir,          \* plan_pdfs_directory: the names of the files in it
    cropsFile,        \* the crop table: its rows
    rooms,            \* config['rooms']: records [name, zones]
    autoYes,          \* build's auto_yes argument
    csvDirOk,         \* whether csv_data_directory exists
    plan_pdfs,        \* self.plan_pdfs: dict tab -> plan PDF file name
    files,            \* the files written so far: path -> PDF
    cropped_files,    \* build's cropped_files: dict tab -> path
    shuffled_plans,   \* build's shuffled_plans: a path, or NoPath
    room_data_files,  \* build's room_data_files: dict room name -> path
    log,              \* what was printed: a sequence of messages
    raised,           \* the exception a stage of build raised, or "none"
    exitStatus,       \* the status of the build command, or NotExited
    gates,            \* what the confirmation gates returned, in call order
    stdout,           \* sys.stdout: the stream print writes to
    input_files,      \* riffle_shuffle_pdfs called on its own: its argument
    success,          \* ... and what it returned, or "none"
    room_a,           \* _get_crop_position called on its own: a room name
    room_b,           \* ... and a second spelling of that name
    position          \* ... and what the two calls returned

buildVars == <<tabsFile, planDir, cropsFile, rooms, autoYes, csvDirOk,
               plan_pdfs, cropped_files, shuffled_plans, room_data_files,
               raised, exitStatus, gates, stdout>>
riffleVars == <<input_files, success>>
lookupVars == <<room_a, room_b, position>>
vars == <<pc, files, log, buildVars, riffleVars, lookupVars>>

----------------------------------------------------------------------------
(* Bounds of the model.                                                    *)

MaxDocs == 3        \* documents handed to riffle_shuffle_pdfs on its own
MaxPages == 2       \* pages of such a document
MaxTabs == 2        \* lines of the tab list
MaxRows == 2        \* rows of the crop table
MaxRooms == 2       \* configured rooms
MaxNameLen == 3     \* characters of a room name looked up on its own
SrcPages == 2       \* pages of every plan PDF
MaxShuffled == 5    \* pages of a document handed to the assembly on its own

----------------------------------------------------------------------------
(* Characters and texts.                                                   *)

SP == " "
TAB == "\t"
US == "_"
APOS == "'"
DQUOTE == "U+0022"
RSQUOTE == "U+2019"
LDQUOTE == "U+201C"
RDQUOTE == "U+201D"

Whitespace == {SP, TAB}

\* str.split() of a text: its maximal runs of non-whitespace characters.
RECURSIVE SplitRuns(_, _, _)
SplitRuns(s, cur, acc) ==
    IF s = <<>>
    THEN IF cur = <<>> THEN acc ELSE Append(acc, cur)
    ELSE IF Head(s) \in Whitespace
         THEN SplitRuns(Tail(s), <<>>, IF cur = <<>> THEN acc ELSE Append(acc, cur))
         ELSE SplitRuns(Tail(s), Append(cur, Head(s)), acc)

StrSplit(s) == SplitRuns(s, <<>>, <<>>)

\* sep.join(parts)
RECURSIVE StrJoin(_, _)
StrJoin(sep, parts) ==
    IF parts = <<>> THEN <<>>
    ELSE IF Len(parts) = 1 THEN parts[1]
    ELSE parts[1] \o sep \o StrJoin(sep, Tail(parts))

\* str.strip(): the text without its leading and trailing whitespace.
RECURSIVE LStrip(_)
LStrip(s) ==
    IF s # <<>> /\ Head(s) \in Whitespace THEN LStrip(Tail(s)) ELSE s

RECURSIVE RStrip(_)
RStrip(s) ==
    IF s # <<>> /\ s[Len(s)] \in Whitespace
    THEN RStrip(SubSeq(s, 1, Len(s) - 1))
    ELSE s

StrStrip(s) == RStrip(LStrip(s))

\* str.replace(old, new) for one-character old and new.
StrReplace(s, old, new) ==
    [i \in 1..Len(s) |-> IF s[i] = old THEN new ELSE s[i]]

SeqUpTo(S, n) == UNION {[1..k -> S] : k \in 0..n}

Range(f) == {f[i] : i \in DOMAIN f}

----------------------------------------------------------------------------
(* Python dicts: insertion-ordered keys, one value per key.                *)

EmptyDict == [keys |-> <<>>, val |-> <<>>]

DictHas(d, k) == k \in DOMAIN d.val

DictSet(d, k, v) ==
    [keys |-> IF DictHas(d, k) THEN d.keys ELSE Append(d.keys, k),
     val  |-> (k :> v) @@ d.val]

\* list(d.values())
DictValues(d) == [i \in 1..Len(d.keys) |-> d.val[d.keys[i]]]

----------------------------------------------------------------------------
(* Pages and files.                                                        *)

\* Page n (1-based) of the plan PDF named `of`, however it was cropped.
PlanPage(of, n) == [kind |-> "plan", of |-> of, n |-> n, zones |-> <<>>]

\* Page n of the data document made for room `of` with zone list `zones`.
DataPage(of, zones, n) == [kind |-> "data", of |-> of, n |-> n, zones |-> zones]

NoFiles == <<>>
FileExists(fs, path) == path \in DOMAIN fs
WriteFile(fs, path, pdf) == (path :> pdf) @@ fs

----------------------------------------------------------------------------
(* riffle_shuffle.py                                                       *)

\* get_page_counts: None when a file cannot be read
RECURSIVE PageCountsFrom(_, _, _)
PageCountsFrom(fs, filenames, page_counts) ==
    IF filenames = <<>> THEN [ok |-> TRUE, page_counts |-> page_counts]
    ELSE IF ~FileExists(fs, Head(filenames))
         THEN [ok |-> FALSE, page_counts |-> EmptyDict]
         ELSE PageCountsFrom(fs, Tail(filenames),
                  DictSet(page_counts, Head(filenames), Len(fs[Head(filenames)])))

GetPageCounts(fs, filenames) == PageCountsFrom(fs, filenames, EmptyDict)

\* A plausible slip: only the first document that differs is reported.
FirstOffenderReport(page_counts) ==
    LET i == CHOOSE i \in 1..Len(page_counts.keys) :
                 /\ page_counts.val[page_counts.keys[i]]
                        # page_counts.val[page_counts.keys[1]]
                 /\ \A j \in 1..(i - 1) :
                        page_counts.val[page_counts.keys[j]]
                            = page_counts.val[page_counts.keys[1]]
    IN  <<[msg |-> "pages", name |-> page_counts.keys[i],
           n |-> page_counts.val[page_counts.keys[i]]]>>

\* The lines validate_page_counts prints on a mismatch: one per document.
MismatchReport(page_counts) ==
    [i \in 1..Len(page_counts.keys) |->
        [msg |-> "pages", name |-> page_counts.keys[i],
         n |-> page_counts.val[page_counts.keys[i]]]]

ValidatePageCounts(page_counts) ==
    IF page_counts.keys = <<>> THEN [ok |-> FALSE, err |-> <<>>]
    ELSE LET page_count_values == DictValues(page_counts)
             first_count == page_count_values[1]
         IN  IF \E i \in 1..Len(page_count_values) :
                    page_count_values[i] # first_count
             THEN [ok |-> FALSE, err |-> MismatchReport(page_counts)]
             ELSE [ok |-> TRUE, err |-> <<>>]

\* A plausible slip: document by document instead of page by page.
RECURSIVE ConcatenatePagesFrom(_, _, _)
ConcatenatePagesFrom(readers, page_num, num_pages) ==
    IF readers = <<>> THEN <<>>
    ELSE SubSeq(Head(readers), page_num + 1, num_pages)
         \o ConcatenatePagesFrom(Tail(readers), page_num, num_pages)

\* for page_num in range(num_pages): for reader in readers: add_page(...)
RECURSIVE RifflePagesFrom(_, _, _)
RifflePagesFrom(readers, page_num, num_pages) ==
    IF page_num >= num_pages THEN <<>>
    ELSE [j \in 1..Len(readers) |-> readers[j][page_num + 1]]
         \o RifflePagesFrom(readers, page_num + 1, num_pages)

\* riffle_shuffle_pdfs: [success, fs (the filenames afterwards), err (stderr)]
RiffleShufflePdfs(fs, filenames, output_file) ==
    LET counted == GetPageCounts(fs, filenames) IN
    IF ~counted.ok
    THEN [success |-> FALSE, fs |-> fs,
          err |-> <<[msg |-> "unreadable", name |-> <<>>, n |-> 0]>>]
    ELSE LET valid == ValidatePageCounts(counted.page_counts) IN
         IF ~valid.ok
         THEN [success |-> FALSE,
               fs |-> fs,
               err |-> valid.err]
         ELSE LET num_pages == DictValues(counted.page_counts)[1]
                  readers == [i \in 1..Len(filenames) |-> fs[filenames[i]]]
              IN  [success |-> TRUE,
                   fs |-> WriteFile(fs, output_file,
                                    RifflePagesFrom(readers, 0, num_pages)),
                   err |-> <<>>]

----------------------------------------------------------------------------
(* cropper.py                                                              *)

\* A crop-table row as csv.reader yields it: nf fields, of which the first
\* is the room name and the second the 1-based source page.  A blank line
\* yields no field at all.
CropRow(name, page) == [nf |-> 6, name |-> name, page |-> page]
ShortRow(name) == [nf |-> 1, name |-> name, page |-> 0]
BlankRow == [nf |-> 0, name |-> <<>>, page |-> 0]

\* doc.load_page(page_id) of PyMuPDF: a page_id of page_count or more raises
\* ValueError; one below zero counts backwards from the end.
LoadPage(page_count, page_id) ==
    IF page_id >= page_count THEN [ok |-> FALSE, pno |-> 0]
    ELSE [ok |-> TRUE, pno |-> page_id % page_count]

\* A plausible slip: blank rows are skipped instead of failing the unpacking.
RECURSIVE CropRowsSkippingBlank(_, _, _, _)
CropRowsSkippingBlank(input_pdf, doc, rows, new_pdf) ==
    IF rows = <<>> THEN [ok |-> TRUE, pdf |-> new_pdf]
    ELSE IF Head(rows).nf = 0
         THEN CropRowsSkippingBlank(input_pdf, doc, Tail(rows), new_pdf)
    ELSE IF Head(rows).nf # 6 THEN [ok |-> FALSE, pdf |-> <<>>]
    ELSE LET page == LoadPage(Len(doc), Head(rows).page - 1) IN
         IF ~page.ok THEN [ok |-> FALSE, pdf |-> <<>>]
         ELSE CropRowsSkippingBlank(input_pdf, doc, Tail(rows),
                                    Append(new_pdf, doc[page.pno + 1]))

\* The loop of crop_pdf over the rows: one new page per row, or an exception.
RECURSIVE CropRows(_, _, _, _)
CropRows(input_pdf, doc, rows, new_pdf) ==
    IF rows = <<>> THEN [ok |-> TRUE, pdf |-> new_pdf]
    ELSE IF Head(rows).nf # 6 THEN [ok |-> FALSE, pdf |-> <<>>]
    ELSE LET page == LoadPage(Len(doc), Head(rows).page - 1) IN
         IF ~page.ok THEN [ok |-> FALSE, pdf |-> <<>>]
         ELSE CropRows(input_pdf, doc, Tail(rows),
                       Append(new_pdf, doc[page.pno + 1]))

\* crop_pdf(input_pdf, output_pdf, crops_csv): the files afterwards; the
\* output is saved only after the last row.
CropPdf(fs, input_pdf, doc, output_pdf, rows) ==
    LET r == CropRows(input_pdf, doc, rows, <<>>) IN
    IF r.ok THEN [ok |-> TRUE, fs |-> WriteFile(fs, output_pdf, r.pdf)]
    ELSE [ok |-> FALSE, fs |-> fs]

----------------------------------------------------------------------------
(* builder.py: the stages of build                                         *)

\* [line.strip() for line in f.readlines() if line.strip()]
RECURSIVE ReadTabs(_)
ReadTabs(lines) ==
    IF lines = <<>> THEN <<>>
    ELSE IF StrStrip(Head(lines)) = <<>> THEN ReadTabs(Tail(lines))
    ELSE <<StrStrip(Head(lines))>> \o ReadTabs(Tail(lines))

\* Whether the text `t` occurs in the text `s`.
IsSubstring(t, s) ==
    \E i \in 0..(Len(s) - Len(t)) : SubSeq(s, i + 1, i + Len(t)) = t

\* glob.glob of '*{tab}*.pdf' in the plan directory; a file of the
\* directory is named by its stem.
MatchingFiles(dir, tab) == {f \in dir : IsSubstring(tab, f)}

\* A plausible slip: the first match is taken when there are several.
FindTabFirstMatch(dir, tab) ==
    LET matching_files == MatchingFiles(dir, tab) IN
    IF Cardinality(matching_files) = 0
    THEN [raised |-> "FileNotFoundError", file |-> <<>>]
    ELSE [raised |-> "none",
          file |-> CHOOSE f \in matching_files :
                       \A g \in matching_files : Len(f) <= Len(g)]

\* One turn of the loop of _find_plan_pdfs.
FindTab(dir, tab) ==
    LET matching_files == MatchingFiles(dir, tab) IN
    IF Cardinality(matching_files) = 0
    THEN [raised |-> "FileNotFoundError", file |-> <<>>]
    ELSE IF Cardinality(matching_files) > 1
    THEN [raised |-> "ValueError", file |-> <<>>]
    ELSE [raised |-> "none", file |-> CHOOSE f \in matching_files : TRUE]

\* _find_plan_pdfs from the tab `tabs` starts with
RECURSIVE FindPlanPdfsFrom(_, _, _, _)
FindPlanPdfsFrom(dir, tabs, found, out) ==
    IF tabs = <<>> THEN [raised |-> "none", plan_pdfs |-> found, log |-> out]
    ELSE LET m == FindTab(dir, Head(tabs)) IN
         IF m.raised # "none"
         THEN [raised |-> m.raised, plan_pdfs |-> found, log |-> out]
         ELSE FindPlanPdfsFrom(dir, Tail(tabs),
                  DictSet(found, Head(tabs), m.file),
                  Append(out, [msg |-> "found", name |-> Head(tabs), n |-> 0]))

CroppedPath(tab) == <<"cropped_">> \o StrReplace(tab, SP, US) \o <<".pdf">>

\* The plan PDF stored under `name` in the plan directory.
SourcePdf(name) == [k \in 1..SrcPages |-> PlanPage(name, k)]

\* _create_cropped_plans from the tab `keys` starts with
RECURSIVE CreateCroppedPlansFrom(_, _, _, _, _, _)
CreateCroppedPlansFrom(keys, pdfs, rows, fs, cropped, out) ==
    IF keys = <<>>
    THEN [raised |-> "none", fs |-> fs, cropped_files |-> cropped, log |-> out]
    ELSE LET tab == Head(keys)
             pdf_path == pdfs.val[tab]
             output_path == CroppedPath(tab)
             r == CropPdf(fs, pdf_path, SourcePdf(pdf_path), output_path, rows)
         IN  IF ~r.ok
             THEN [raised |-> "RuntimeError", fs |-> fs,
                   cropped_files |-> cropped, log |-> out]
             ELSE CreateCroppedPlansFrom(Tail(keys), pdfs, rows, r.fs,
                      DictSet(cropped, tab, output_path),
                      Append(out, [msg |-> "cropped", name |-> tab, n |-> 0]))

ShuffledPath == <<"shuffled_plans.pdf">>

\* A plausible slip: the cropped documents are taken from the dict, once
\* per key, instead of once per line of the tab list.
PdfFilesOfDict(tabs, cropped) == DictValues(cropped)

\* [cropped_files[tab] for tab in tabs if tab in cropped_files]
RECURSIVE PdfFilesInTabOrder(_, _)
PdfFilesInTabOrder(tabs, cropped) ==
    IF tabs = <<>> THEN <<>>
    ELSE IF DictHas(cropped, Head(tabs))
         THEN <<cropped.val[Head(tabs)]>> \o PdfFilesInTabOrder(Tail(tabs), cropped)
         ELSE PdfFilesInTabOrder(Tail(tabs), cropped)

\* ' '.join(name.split()).strip() with the three curly quotes made straight
Normalise(name) ==
    StrReplace(
        StrReplace(
            StrReplace(StrStrip(StrJoin(<<SP>>, StrSplit(name))),
                       RSQUOTE, APOS),
            LDQUOTE, DQUOTE),
        RDQUOTE, DQUOTE)

\* A plausible slip: the requested name is compared as it was given.
RECURSIVE CropPositionRawFrom(_, _, _)
CropPositionRawFrom(rows, idx, room_name) ==
    IF rows = <<>> THEN [ok |-> FALSE, idx |-> 0]
    ELSE IF Head(rows).nf > 0 /\ Normalise(Head(rows).name) = room_name
         THEN [ok |-> TRUE, idx |-> idx]
         ELSE CropPositionRawFrom(Tail(rows), idx + 1, room_name)

\* A plausible slip: the loop does not stop at the first match, so that the
\* last matching row wins.
RECURSIVE CropPositionLastFrom(_, _, _)
CropPositionLastFrom(rows, idx, room_name) ==
    IF rows = <<>> THEN [ok |-> FALSE, idx |-> 0]
    ELSE LET later == CropPositionLastFrom(Tail(rows), idx + 1, room_name) IN
         IF later.ok THEN later
         ELSE IF Head(rows).nf > 0
                 /\ Normalise(Head(rows).name) = Normalise(room_name)
         THEN [ok |-> TRUE, idx |-> idx]
         ELSE [ok |-> FALSE, idx |-> 0]

\* The loop of _get_crop_position from row idx on: the index of the first
\* row whose name matches after normalisation, or ValueError (ok = FALSE).
RECURSIVE CropPositionFrom(_, _, _)
CropPositionFrom(rows, idx, room_name) ==
    IF rows = <<>> THEN [ok |-> FALSE, idx |-> 0]
    ELSE IF Head(rows).nf > 0
            /\ Normalise(Head(rows).name) = Normalise(room_name)
         THEN [ok |-> TRUE, idx |-> idx]
         ELSE CropPositionFrom(Tail(rows), idx + 1, room_name)

GetCropPosition(rows, room_name) == CropPositionFrom(rows, 0, room_name)

DataPath(room_name) ==
    <<"data_">> \o StrReplace(room_name, SP, US) \o <<".pdf">>

\* The document html_to_pdf renders from what extract_zone_data wrote for a
\* room: it shows the room's name and the rows of its zones; it has a first
\* page and one more for each zone.
DataPdf(room_name, zones) ==
    [n \in 1..(1 + Len(zones)) |-> DataPage(room_name, zones, n)]

\* Whether extract_zone_data raises: it lists the CSV directory once per
\* line of the tab list.
ExtractRaises(lines, csv_ok) == lines # <<>> /\ ~csv_ok

\* sys.__stdout__, the stream the process starts with.
SysStdout == <<"sys.__stdout__">>

\* The HTML file extract_zone_data writes for a room.
HtmlPath(room_name) ==
    <<"data_">> \o StrReplace(room_name, SP, US) \o <<".html">>

\* sys.stdout after a call of extract_zone_data: sys.__stdout__ when the
\* call reaches its last statements, the output file (closed by then) when
\* os.listdir raises inside the with block.
StdoutAfterExtract(lines, csv_ok, output_filename) ==
    IF ExtractRaises(lines, csv_ok) THEN output_filename ELSE SysStdout

\* _create_room_data_pages from the room `todo` starts with
RECURSIVE CreateRoomDataPagesFrom(_, _, _, _, _, _, _)
CreateRoomDataPagesFrom(todo, lines, csv_ok, fs, data_files, out, stream) ==
    IF todo = <<>>
    THEN [raised |-> "none", fs |-> fs, room_data_files |-> data_files,
          log |-> out, stdout |-> stream]
    ELSE LET room_name == Head(todo).name
             zones == Head(todo).zones
             pdf_file == DataPath(room_name)
             after == StdoutAfterExtract(lines, csv_ok, HtmlPath(room_name))
         IN  IF ExtractRaises(lines, csv_ok)
             THEN [raised |-> "RuntimeError", fs |-> fs,
                   room_data_files |-> data_files, log |-> out,
                   stdout |-> after]
             ELSE CreateRoomDataPagesFrom(Tail(todo), lines, csv_ok,
                      WriteFile(fs, pdf_file, DataPdf(room_name, zones)),
                      DictSet(data_files, room_name, pdf_file),
                      Append(out, [msg |-> "data_page", name |-> room_name,
                                   n |-> 0]),
                      after)

\* The zones the CSV files of the data directory have rows for.
CsvZones == {<<"k">>}

\* _check_missing_zones: the configured zones no CSV file has data for
MissingZones(cfg) ==
    UNION {{Normalise(z) : z \in Range(cfg[i].zones)} : i \in 1..Len(cfg)}
        \ {Normalise(z) : z \in CsvZones}

\* A plausible slip: the names of the crop table are compared as written.
MissingPlanRoomsRaw(cfg, rows) ==
    LET config_rooms == {Normalise(cfg[i].name) : i \in 1..Len(cfg)}
        crops_rooms == {rows[i].name :
                            i \in {k \in 1..Len(rows) : rows[k].nf > 0}}
    IN  config_rooms \ crops_rooms

\* _check_missing_plan_pages: the configured rooms the crop table lacks
MissingPlanRooms(cfg, rows) ==
    LET config_rooms == {Normalise(cfg[i].name) : i \in 1..Len(cfg)}
        crops_rooms == {Normalise(rows[i].name) :
                            i \in {k \in 1..Len(rows) : rows[k].nf > 0}}
    IN  config_rooms \ crops_rooms

\* A plausible slip: auto_yes is not looked at.
AnswersIgnoringAutoYes(missing, auto_yes) ==
    IF missing = {} THEN {TRUE} ELSE {TRUE, FALSE}

\* The answers input() can bring a gate to return on.
Answers(missing, auto_yes) ==
    IF missing = {} \/ auto_yes THEN {TRUE} ELSE {TRUE, FALSE}

\* Whether a gate asks "Proceed with output? (Y/N)".
Prompts(missing, auto_yes) == missing # {} /\ ~auto_yes

\* A plausible slip: a block that is not whole is left out altogether.
PlanBlockWhole(shuffled, start_page, page_offset, num_tabs) ==
    IF start_page + num_tabs <= Len(shuffled)
    THEN SubSeq(shuffled, start_page + page_offset + 1, start_page + num_tabs)
    ELSE <<>>

\* for page_offset in range(num_tabs): the pages of the block that exist
RECURSIVE PlanBlockFrom(_, _, _, _)
PlanBlockFrom(shuffled, start_page, page_offset, num_tabs) ==
    IF page_offset >= num_tabs THEN <<>>
    ELSE LET page_idx == start_page + page_offset IN
         (IF page_idx < Len(shuffled) THEN <<shuffled[page_idx + 1]>> ELSE <<>>)
         \o PlanBlockFrom(shuffled, start_page, page_offset + 1, num_tabs)

\* A plausible slip: a room missing from the crop table ends the loop.
RECURSIVE CombineStoppingAtMissing(_, _, _, _, _, _, _, _)
CombineStoppingAtMissing(todo, fs, data_files, shuffled, rows, num_tabs, writer, out) ==
    IF todo = <<>> THEN [pdf |-> writer, log |-> out]
    ELSE LET room_name == Head(todo).name
             has_data == DictHas(data_files, room_name)
             data == IF has_data THEN fs[data_files.val[room_name]] ELSE <<>>
             crop_position == GetCropPosition(rows, room_name)
         IN  IF crop_position.ok
             THEN CombineStoppingAtMissing(Tail(todo), fs, data_files,
                      shuffled, rows, num_tabs,
                      writer \o data
                          \o PlanBlockFrom(shuffled,
                                 crop_position.idx * num_tabs, 0, num_tabs),
                      out \o <<[msg |-> "added_plan", name |-> room_name,
                                n |-> crop_position.idx]>>)
             ELSE [pdf |-> writer \o data,
                   log |-> out \o <<[msg |-> "skipped", name |-> room_name,
                                     n |-> 0]>>]

\* A plausible slip: the rooms are taken in crop-table order.
RECURSIVE CombineSorted(_, _, _, _, _, _, _, _)
CombineSorted(todo, fs, data_files, shuffled, rows, num_tabs, writer, out) ==
    IF todo = <<>> THEN [pdf |-> writer, log |-> out]
    ELSE LET pos(i) == GetCropPosition(rows, todo[i].name)
             rank(i) == IF pos(i).ok THEN pos(i).idx ELSE Len(rows)
             first == CHOOSE i \in 1..Len(todo) :
                          \A j \in 1..Len(todo) :
                              rank(i) < rank(j) \/ (rank(i) = rank(j) /\ i <= j)
             rest == [k \in 1..(Len(todo) - 1) |->
                          IF k < first THEN todo[k] ELSE todo[k + 1]]
             room_name == todo[first].name
             has_data == DictHas(data_files, room_name)
             data == IF has_data THEN fs[data_files.val[room_name]] ELSE <<>>
             crop_position == GetCropPosition(rows, room_name)
         IN  CombineSorted(rest, fs, data_files, shuffled, rows, num_tabs,
                 writer \o data
                     \o (IF crop_position.ok
                         THEN PlanBlockFrom(shuffled,
                                  crop_position.idx * num_tabs, 0, num_tabs)
                         ELSE <<>>),
                 out \o (IF crop_position.ok
                         THEN <<[msg |-> "added_plan", name |-> room_name,
                                 n |-> crop_position.idx]>>
                         ELSE <<[msg |-> "skipped", name |-> room_name,
                                 n |-> 0]>>))

\* The loop of _combine_final_output over the rooms `todo` starts with:
\* what the writer holds in the end, and what was printed.
RECURSIVE CombineFrom(_, _, _, _, _, _, _, _)
CombineFrom(todo, fs, data_files, shuffled, rows, num_tabs, writer, out) ==
    IF todo = <<>> THEN [pdf |-> writer, log |-> out]
    ELSE LET room_name == Head(todo).name
             has_data == DictHas(data_files, room_name)
             data == IF has_data THEN fs[data_files.val[room_name]] ELSE <<>>
             crop_position == GetCropPosition(rows, room_name)
         IN  CombineFrom(Tail(todo), fs, data_files, shuffled, rows, num_tabs,
                 writer \o data
                     \o (IF crop_position.ok
                         THEN PlanBlockFrom(shuffled,
                                  crop_position.idx * num_tabs, 0, num_tabs)
                         ELSE <<>>),
                 out \o (IF has_data
                         THEN <<[msg |-> "added_data", name |-> room_name,
                                 n |-> Len(data)]>>
                         ELSE <<>>)
                     \o (IF crop_position.ok
                         THEN <<[msg |-> "added_plan", name |-> room_name,
                                 n |-> crop_position.idx]>>
                         ELSE <<[msg |-> "skipped", name |-> room_name,
                                 n |-> 0]>>))

OutputPath == <<"output.pdf">>

\* A plausible slip: the except branch of the command returns 0.
BuildCommandAlwaysZero(outcome) == 0

\* build_command's return value: 0 when build returned, 1 when an
\* exception came out of it; sys.exit(1) ends the process with status 1.
BuildCommandStatus(outcome) == IF outcome = "returned" THEN 0 ELSE 1

\* The exception that leaves build when a stage has raised `exc`: build's
\* except clause prints before it re-raises, and print on a closed file
\* raises ValueError in place of it.
ExceptionLeavingBuild(exc, stream) ==
    IF stream = SysStdout THEN exc ELSE "ValueError"

----------------------------------------------------------------------------
(* Helpers for the sets the inputs are drawn from.                         *)

NoPath == <<>>
NotExited == -1

\* The builder's own state right after __init__, and nothing yet printed.
BuilderFresh ==
    /\ plan_pdfs = EmptyDict
    /\ cropped_files = EmptyDict
    /\ shuffled_plans = NoPath
    /\ room_data_files = EmptyDict
    /\ raised = "none"
    /\ exitStatus = NotExited
    /\ gates = <<>>
    /\ stdout = SysStdout

\* No build is run: the configuration is empty.
BuildIdle ==
    /\ tabsFile = <<>>
    /\ planDir = {}
    /\ cropsFile = <<>>
    /\ rooms = <<>>
    /\ autoYes = FALSE
    /\ csvDirOk = FALSE
    /\ BuilderFresh

RiffleIdle == input_files = <<>> /\ success = "none"

LookupIdle == room_a = <<>> /\ room_b = <<>> /\ position = <<>>

----------------------------------------------------------------------------
(* The build command: DocumentationPackBuilder.build under build_command.  *)

TabA == <<"A">>
TabAB == <<"A", SP, "B">>
TabA_B == <<"A", US, "B">>
BlankLine == <<SP>>

\* The lines a tab list is made of, and the plan PDFs (by stem) a plan
\* directory holds some of.
TabLines == {TabA, TabAB, TabA_B, BlankLine}
PlanFiles == {TabAB, TabA_B}

RoomHall == <<"H">>
RoomMainHall == <<"M", SP, "H">>
RoomMain_Hall == <<"M", US, "H">>
CropMainHall == <<"M", TAB, "H">>

ZoneKitchen == <<"k">>
ZoneGarage == <<"g">>

\* The rooms a configuration is made of.
RoomConfigs ==
    {[name |-> RoomHall, zones |-> <<ZoneKitchen>>],
     [name |-> RoomMainHall, zones |-> <<>>],
     [name |-> RoomMain_Hall, zones |-> <<ZoneGarage>>]}

\* The rows a crop table is made of: well-formed rows with a page inside
\* and outside the plan PDF, a blank line, a row with too few fields.
AnyRows ==
    {CropRow(RoomHall, 1), CropRow(CropMainHall, 2), CropRow(RoomHall, 0),
     CropRow(CropMainHall, -1), CropRow(RoomHall, SrcPages + 1),
     BlankRow, ShortRow(RoomHall)}

\* ... and the rows of the crop tables the assembly is explored on.
GoodRows ==
    {CropRow(RoomHall, 1), CropRow(RoomHall, 2), CropRow(CropMainHall, 2)}

BuildStarts ==
    /\ pc = "find"
    /\ files = NoFiles
    /\ log = <<>>
    /\ BuilderFresh
    /\ RiffleIdle
    /\ LookupIdle

\* Any tab list, plan directory and crop table; one room.
InitPlans ==
    /\ tabsFile \in SeqUpTo(TabLines, MaxTabs)
    /\ planDir \in SUBSET PlanFiles
    /\ cropsFile \in SeqUpTo(AnyRows, MaxRows)
    /\ rooms = <<[name |-> RoomHall, zones |-> <<ZoneKitchen>>]>>
    /\ autoYes = TRUE
    /\ csvDirOk = TRUE
    /\ BuildStarts

\* Any rooms and any well-formed crop table; one or two tabs, each with its
\* plan PDF.
InitAssembly ==
    /\ tabsFile \in {<<TabA_B>>, <<TabAB, TabA_B>>}
    /\ planDir = PlanFiles
    /\ cropsFile \in SeqUpTo(GoodRows, MaxRows)
    /\ rooms \in SeqUpTo(RoomConfigs, MaxRooms)
    /\ autoYes \in BOOLEAN
    /\ csvDirOk \in BOOLEAN
    /\ BuildStarts

Init == InitPlans \/ InitAssembly

configVars == <<tabsFile, planDir, cropsFile, rooms, autoYes, csvDirOk>>

\* build, step 1
FindPlanPdfs ==
    /\ pc = "find"
    /\ LET r == FindPlanPdfsFrom(planDir, ReadTabs(tabsFile), plan_pdfs, <<>>) IN
         /\ plan_pdfs' = r.plan_pdfs
         /\ log' = log \o r.log
         /\ raised' = r.raised
         /\ pc' = IF r.raised = "none" THEN "crop" ELSE "except"
    /\ UNCHANGED <<configVars, files, cropped_files, shuffled_plans,
                   room_data_files, exitStatus, gates, stdout, riffleVars,
                   lookupVars>>

\* build, step 2
CreateCroppedPlans ==
    /\ pc = "crop"
    /\ LET r == CreateCroppedPlansFrom(plan_pdfs.keys, plan_pdfs, cropsFile,
                                       files, EmptyDict, <<>>) IN
         /\ files' = r.fs
         /\ log' = log \o r.log
         /\ raised' = r.raised
         /\ cropped_files' = IF r.raised = "none" THEN r.cropped_files
                             ELSE cropped_files
         /\ pc' = IF r.raised = "none" THEN "riffle" ELSE "except"
    /\ UNCHANGED <<configVars, plan_pdfs, shuffled_plans, room_data_files,
                   exitStatus, gates, stdout, riffleVars, lookupVars>>

\* build, step 3
RiffleShufflePlans ==
    /\ pc = "riffle"
    /\ LET pdf_files == PdfFilesInTabOrder(ReadTabs(tabsFile), cropped_files)
           r == RiffleShufflePdfs(files, pdf_files, ShuffledPath)
       IN  /\ files' = r.fs
           /\ log' = log \o r.err
           /\ raised' = IF r.success THEN "none" ELSE "RuntimeError"
           /\ shuffled_plans' = IF r.success THEN ShuffledPath ELSE shuffled_plans
           /\ pc' = IF r.success THEN "data" ELSE "except"
    /\ UNCHANGED <<configVars, plan_pdfs, cropped_files, room_data_files,
                   exitStatus, gates, stdout, riffleVars, lookupVars>>

\* build, step 4
CreateRoomDataPages ==
    /\ pc = "data"
    /\ LET r == CreateRoomDataPagesFrom(rooms, tabsFile, csvDirOk, files,
                                        EmptyDict, <<>>, stdout) IN
         /\ files' = r.fs
         /\ stdout' = r.stdout
         /\ log' = log \o r.log
         /\ raised' = r.raised
         /\ room_data_files' = IF r.raised = "none" THEN r.room_data_files
                               ELSE room_data_files
         /\ pc' = IF r.raised = "none" THEN "zones" ELSE "except"
    /\ UNCHANGED <<configVars, plan_pdfs, cropped_files, shuffled_plans,
                   exitStatus, gates, riffleVars, lookupVars>>

\* The lines a gate prints for what is missing.
Warnings(kind, missing) ==
    IF missing = {} THEN <<>>
    ELSE <<[msg |-> kind, name |-> missing, n |-> Cardinality(missing)]>>

\* build, step 5: _check_missing_zones, and sys.exit(1) on a refusal
CheckMissingZones ==
    /\ pc = "zones"
    /\ IF ReadTabs(tabsFile) # <<>> /\ ~csvDirOk
       THEN /\ raised' = "FileNotFoundError"
            /\ pc' = "except"
            /\ log' = log
            /\ gates' = gates
       ELSE \E proceed \in Answers(MissingZones(rooms), autoYes) :
            /\ raised' = raised
            /\ pc' = IF proceed THEN "plans" ELSE "exit"
            /\ log' = log \o Warnings("no_data_for_zones", MissingZones(rooms))
            /\ gates' = Append(gates,
                   [gate |-> "zones", proceed |-> proceed,
                    prompted |-> Prompts(MissingZones(rooms), autoYes)])
    /\ UNCHANGED <<configVars, files, plan_pdfs, cropped_files, shuffled_plans,
                   room_data_files, exitStatus, stdout, riffleVars, lookupVars>>

\* build, step 6: _check_missing_plan_pages, and sys.exit(1) on a refusal
CheckMissingPlanPages ==
    /\ pc = "plans"
    /\ \E proceed \in Answers(MissingPlanRooms(rooms, cropsFile), autoYes) :
         /\ pc' = IF proceed THEN "combine" ELSE "exit"
         /\ log' = log \o Warnings("no_plan_pages_for_rooms",
                                   MissingPlanRooms(rooms, cropsFile))
         /\ gates' = Append(gates,
                [gate |-> "plans", proceed |-> proceed,
                 prompted |-> Prompts(MissingPlanRooms(rooms, cropsFile),
                                      autoYes)])
    /\ UNCHANGED <<configVars, files, plan_pdfs, cropped_files, shuffled_plans,
                   room_data_files, raised, exitStatus, stdout, riffleVars,
                   lookupVars>>

\* build, step 7
CombineFinalOutput ==
    /\ pc = "combine"
    /\ LET num_tabs == Len(ReadTabs(tabsFile))
           r == CombineFrom(rooms, files, room_data_files,
                            files[shuffled_plans], cropsFile, num_tabs,
                            <<>>, <<>>)
       IN  /\ files' = WriteFile(files, OutputPath, r.pdf)
           /\ log' = log \o r.log
    /\ pc' = "returned"
    /\ UNCHANGED <<configVars, plan_pdfs, cropped_files, shuffled_plans,
                   room_data_files, raised, exitStatus, gates, stdout,
                   riffleVars, lookupVars>>

\* build_command once build has returned, raised ("except": the except and
\* finally clauses of build run, the exception goes on to build_command) or
\* called sys.exit(1) ("exit").
BuildCommandReturns ==
    /\ pc \in {"returned", "except", "exit"}
    /\ exitStatus' = BuildCommandStatus(pc)
    /\ log' = IF pc = "except"
              THEN log \o <<[msg |-> "error",
                              name |-> <<ExceptionLeavingBuild(raised, stdout)>>,
                              n |-> 0]>>
              ELSE log
    /\ pc' = IF pc = "returned" THEN "done"
             ELSE IF pc = "except" THEN "failed" ELSE "cancelled"
    /\ UNCHANGED <<configVars, files, plan_pdfs, cropped_files, shuffled_plans,
                   room_data_files, raised, gates, stdout, riffleVars,
                   lookupVars>>

Next ==
    \/ FindPlanPdfs
    \/ CreateCroppedPlans
    \/ RiffleShufflePlans
    \/ CreateRoomDataPages
    \/ CheckMissingZones
    \/ CheckMissingPlanPages
    \/ CombineFinalOutput
    \/ BuildCommandReturns

Spec == Init /\ [][Next]_vars

----------------------------------------------------------------------------
(* Claims about the build.                                                 *)

Tabs == ReadTabs(tabsFile)

Distinct(seq) == \A i, j \in 1..Len(seq) : seq[i] = seq[j] => i = j

\* The interleaving stage has been reached and has written its document.
Interleaved == shuffled_plans # NoPath

\* The build has stopped on an exception.
Aborted == pc \in {"except", "failed"}

\* The page crop_pdf makes of a row: the source page the row names.
CropOfRow(source, row) ==
    SourcePdf(source)[LoadPage(SrcPages, row.page - 1).pno + 1]

\* C2: once the plans are interleaved, for a tab list of pairwise distinct
\* tabs, page s*N + j of the shuffled document is the crop of row s taken
\* from the plan PDF matched for the j-th tab.
C2_RoomContiguity ==
    (Interleaved /\ Distinct(Tabs))
    => LET N == Len(Tabs)
           shuffled == files[shuffled_plans]
       IN  /\ Len(shuffled) = N * Len(cropsFile)
           /\ \A s \in 0..(Len(cropsFile) - 1) : \A j \in 0..(N - 1) :
                shuffled[s * N + j + 1]
                    = CropOfRow(plan_pdfs.val[Tabs[j + 1]], cropsFile[s + 1])

\* The rows whose name is the room's after normalisation (1-based).
RowsOf(room_name) ==
    {k \in 1..Len(cropsFile) :
        /\ cropsFile[k].nf > 0
        /\ Normalise(cropsFile[k].name) = Normalise(room_name)}

Min(S) == CHOOSE m \in S : \A x \in S : m <= x

\* The data pages of the i-th configured room: its data document, if any.
DataPagesOf(i) ==
    IF DictHas(room_data_files, rooms[i].name)
    THEN files[room_data_files.val[rooms[i].name]]
    ELSE <<>>

\* The plan pages of the i-th configured room: interleaved[slot*N ..
\* slot*N + N - 1] for its slot, nothing when the crop table lacks it.
PlanBlockOf(i) ==
    IF RowsOf(rooms[i].name) = {} THEN <<>>
    ELSE LET slot == Min(RowsOf(rooms[i].name)) - 1
             N == Len(Tabs)
         IN  SubSeq(files[shuffled_plans], slot * N + 1, slot * N + N)

\* The data pages and plan block of the rooms i, i+1, ... in that order.
RECURSIVE PagesFromRoom(_)
PagesFromRoom(i) ==
    IF i > Len(rooms) THEN <<>>
    ELSE DataPagesOf(i) \o PlanBlockOf(i) \o PagesFromRoom(i + 1)

Assembled == pc \in {"returned", "done"}

AllRoomsInCropTable == \A i \in 1..Len(rooms) : RowsOf(rooms[i].name) # {}

\* C4: the final document is, room by room in configuration order, the
\* room's data pages then its plan block of N pages; nothing is reordered,
\* merged or dropped.
C4_FinalPageOrder ==
    (Assembled /\ AllRoomsInCropTable)
    => /\ files[OutputPath] = PagesFromRoom(1)
       /\ \A i \in 1..Len(rooms) : Len(PlanBlockOf(i)) = Len(Tabs)

\* Two rooms configured in the reverse of their crop-table order have been
\* assembled from two tabs: three data pages and two blocks of two pages.
C4_Witness ==
    /\ pc = "done"
    /\ Len(Tabs) = 2
    /\ Len(rooms) = 2
    /\ AllRoomsInCropTable
    /\ Min(RowsOf(rooms[1].name)) > Min(RowsOf(rooms[2].name))
    /\ Len(files[OutputPath]) = 7

\* C5: a configured room the crop table lacks has its data pages in the
\* final document and no plan page, a skip message is printed for it, and
\* the rooms after it have their pages as usual.
C5_MissingRoomTolerance ==
    Assembled
    => /\ files[OutputPath] = PagesFromRoom(1)
       /\ \A i \in 1..Len(rooms) :
            RowsOf(rooms[i].name) = {}
            => /\ PlanBlockOf(i) = <<>>
               /\ \E k \in 1..Len(log) :
                    log[k].msg = "skipped" /\ log[k].name = rooms[i].name

\* A room the crop table lacks, configured before one it has, was assembled.
C5_Witness ==
    /\ pc = "done"
    /\ Len(rooms) = 2
    /\ RowsOf(rooms[1].name) = {}
    /\ RowsOf(rooms[2].name) # {}
    /\ Len(files[OutputPath]) > Len(DataPagesOf(1)) + Len(DataPagesOf(2))

\* Cropping has succeeded for at least one tab.
Cropped == cropped_files.keys # <<>>

\* The names a room may be asked for by.
RoomNames == {RoomHall, RoomMainHall, RoomMain_Hall, CropMainHall}

\* C7: where crop_pdf succeeds the cropped document has one page per row of
\* the table, in row order, and the index _get_crop_position returns is the
\* position of a row of that name among all the rows: the index of the page
\* made for it.
C7_SlotAgreement ==
    Cropped
    => /\ \A tab \in DOMAIN cropped_files.val :
            LET doc == files[cropped_files.val[tab]] IN
            /\ Len(doc) = Len(cropsFile)
            /\ \A k \in 1..Len(cropsFile) :
                 doc[k].n = CropOfRow(plan_pdfs.val[tab], cropsFile[k]).n
       /\ \A name \in RoomNames :
            LET found == GetCropPosition(cropsFile, name) IN
            found.ok => (found.idx + 1) \in RowsOf(name)

\* A two-row table was cropped and its second row is found at index 1.
C7_Witness ==
    /\ Cropped
    /\ Len(cropsFile) = 2
    /\ GetCropPosition(cropsFile, RoomMainHall).ok
    /\ GetCropPosition(cropsFile, RoomMainHall).idx = 1

\* C8: when a stage of build raises, the final document is not written (and
\* never will be), the exception leaves build and the command returns 1.
C8_NoOutputOnFailure ==
    /\ raised # "none" => Aborted
    /\ Aborted => raised # "none" /\ ~FileExists(files, OutputPath)
    /\ pc = "failed" => exitStatus = 1
    /\ exitStatus = 0 => pc = "done" /\ FileExists(files, OutputPath)

\* The data pages could not be made, after the plans had been interleaved.
C8_Witness ==
    /\ pc = "failed"
    /\ raised = "RuntimeError"
    /\ Interleaved
    /\ room_data_files = EmptyDict
    /\ rooms # <<>>

\* The find stage is over.
FindOver == pc # "find"

\* C9: a plan PDF is recorded for a tab only when exactly one file matches
\* the tab; a tab with no or several matches is fatal; after a successful
\* return every tab has exactly one recorded document.
C9_OnePlanPdfPerTab ==
    FindOver
    => /\ \A tab \in DOMAIN plan_pdfs.val :
            MatchingFiles(planDir, tab) = {plan_pdfs.val[tab]}
       /\ (\E i \in 1..Len(Tabs) :
               Cardinality(MatchingFiles(planDir, Tabs[i])) # 1)
          => Aborted /\ raised \in {"FileNotFoundError", "ValueError"}
                     /\ cropped_files = EmptyDict
       /\ (\A i \in 1..Len(Tabs) :
               Cardinality(MatchingFiles(planDir, Tabs[i])) = 1)
          => /\ DOMAIN plan_pdfs.val = Range(Tabs)
             /\ Range(plan_pdfs.keys) = Range(Tabs)
             /\ Distinct(plan_pdfs.keys)

\* Two tabs, each with its own plan PDF, have been found.
C9_Witness ==
    /\ pc = "crop"
    /\ Len(plan_pdfs.keys) = 2
    /\ plan_pdfs.val[plan_pdfs.keys[1]] # plan_pdfs.val[plan_pdfs.keys[2]]

\* C10: a row whose source page is outside 1..SrcPages makes crop_pdf fail,
\* and the build abort, for every tab that is cropped.
C10_OutOfRangePageFails ==
    (pc \notin {"find", "crop"} /\ plan_pdfs.keys # <<>>
        /\ \E k \in 1..Len(cropsFile) :
              cropsFile[k].nf = 6 /\ cropsFile[k].page \notin 1..SrcPages)
    => Aborted /\ ~Cropped

----------------------------------------------------------------------------
(* riffle_shuffle_pdfs called on its own, on any documents.                *)

RiffleNames == {<<"a.pdf">>, <<"b.pdf">>, <<"c.pdf">>}
RiffleOutput == <<"out.pdf">>

\* A document of p pages stored under `name`.
Document(name, p) == [k \in 1..p |-> PlanPage(name, k)]

\* The directories: some of the names, each a document of 0..MaxPages pages.
RiffleDirs ==
    UNION {{[n \in D |-> Document(n, c[n])] : c \in [D -> 0..MaxPages]}
           : D \in SUBSET RiffleNames}

InitRiffle ==
    /\ pc = "riffle"
    /\ files \in RiffleDirs
    /\ input_files \in SeqUpTo(RiffleNames, MaxDocs)
    /\ success = "none"
    /\ log = <<>>
    /\ BuildIdle
    /\ LookupIdle

RiffleCall ==
    /\ pc = "riffle"
    /\ LET r == RiffleShufflePdfs(files, input_files, RiffleOutput) IN
         /\ files' = r.fs
         /\ success' = r.success
         /\ log' = r.err
    /\ pc' = "riffle_returned"
    /\ UNCHANGED <<buildVars, input_files, lookupVars>>

NextRiffle == RiffleCall

SpecRiffle == InitRiffle /\ [][NextRiffle]_vars

\* The documents handed over all exist.
AllReadable == \A i \in 1..Len(input_files) : FileExists(files, input_files[i])

\* ... and all have the same number of pages.
EqualCounts ==
    \A i, j \in 1..Len(input_files) :
        Len(files[input_files[i]]) = Len(files[input_files[j]])

\* C1: N >= 1 documents of P pages each: the call succeeds and the output has
\* N*P pages, page slot*N + tab being page `slot` of the tab-th document.
C1_InterleaveFormula ==
    (pc = "riffle_returned" /\ Len(input_files) >= 1
        /\ AllReadable /\ EqualCounts)
    => LET N == Len(input_files)
           P == Len(files[input_files[1]])
       IN  /\ success = TRUE
           /\ FileExists(files, RiffleOutput)
           /\ Len(files[RiffleOutput]) = N * P
           /\ \A slot \in 0..(P - 1) : \A tab \in 0..(N - 1) :
                files[RiffleOutput][slot * N + tab + 1]
                    = PlanPage(input_files[tab + 1], slot + 1)

\* Three two-page documents, one of them given twice, have been interleaved.
C1_Witness ==
    /\ pc = "riffle_returned"
    /\ success = TRUE
    /\ Len(input_files) = 3
    /\ input_files[1] = input_files[3]
    /\ input_files[1] # input_files[2]
    /\ Len(files[RiffleOutput]) = 6

\* C3: documents of differing page counts: the call returns False, the report
\* has one line per document with that document's count, nothing is written.
C3_MismatchDetection ==
    (pc = "riffle_returned" /\ AllReadable /\ ~EqualCounts)
    => /\ success = FALSE
       /\ ~FileExists(files, RiffleOutput)
       /\ \A i \in 1..Len(input_files) :
            \E k \in 1..Len(log) :
                /\ log[k].msg = "pages"
                /\ log[k].name = input_files[i]
                /\ log[k].n = Len(files[input_files[i]])

\* Page counts [2, 2, 1] have been refused.
C3_Witness ==
    /\ pc = "riffle_returned"
    /\ success = FALSE
    /\ Len(input_files) = 3
    /\ AllReadable
    /\ Len(files[input_files[1]]) = 2
    /\ Len(files[input_files[2]]) = 2
    /\ Len(files[input_files[3]]) = 1

----------------------------------------------------------------------------
(* _get_crop_position called on its own, for a room name and a second      *)
(* spelling of it.                                                         *)

NameChars == {"a", SP, TAB, APOS, RSQUOTE, DQUOTE, LDQUOTE, RDQUOTE}

Names == SeqUpTo(NameChars, MaxNameLen)

\* The crop table the names are looked up in.
LookupTable ==
    <<CropRow(<<"a">>, 1), BlankRow, CropRow(<<"a", TAB, "a">>, 1),
      CropRow(<<RSQUOTE, "a">>, 2), CropRow(<<SP, RDQUOTE>>, 2),
      CropRow(<<LDQUOTE, "a">>, 1), CropRow(<<"a", SP, SP, APOS>>, 1),
      CropRow(<<APOS, "a", TAB>>, 1), CropRow(<<"a", "a">>, 1),
      CropRow(<<"a">>, 2)>>

\* The straight and curly forms of a quote.
QuoteForms(c) ==
    IF c \in {APOS, RSQUOTE} THEN {APOS, RSQUOTE}
    ELSE IF c \in {DQUOTE, LDQUOTE, RDQUOTE} THEN {DQUOTE, LDQUOTE, RDQUOTE}
    ELSE {c}

\* Position i (0..Len) of a text lies at an end of it or next to whitespace.
AtWhitespaceOrEnd(s, i) ==
    \/ i = 0
    \/ i = Len(s)
    \/ s[i] \in Whitespace
    \/ s[i + 1] \in Whitespace

\* The texts one step from s: a whitespace character more or less in a run
\* of whitespace or at an end, one whitespace character for another, one
\* form of a quote for another.
Respellings(s) ==
    {SubSeq(s, 1, i) \o <<w>> \o SubSeq(s, i + 1, Len(s)) :
        i \in {k \in 0..Len(s) : AtWhitespaceOrEnd(s, k)}, w \in Whitespace}
    \cup {SubSeq(s, 1, i - 1) \o SubSeq(s, i + 1, Len(s)) :
        i \in {k \in 1..Len(s) :
                 /\ s[k] \in Whitespace
                 /\ \/ k = 1
                    \/ k = Len(s)
                    \/ s[k - 1] \in Whitespace
                    \/ s[k + 1] \in Whitespace}}
    \cup {[s EXCEPT ![i] = c] :
        i \in {k \in 1..Len(s) : s[k] \in Whitespace}, c \in Whitespace}
    \cup UNION {{[s EXCEPT ![i] = c] : c \in QuoteForms(s[i])} : i \in 1..Len(s)}

InitLookup ==
    /\ pc = "lookup"
    /\ cropsFile = LookupTable
    /\ room_a \in Names
    /\ room_b = room_a
    /\ position = <<>>
    /\ tabsFile = <<>>
    /\ planDir = {}
    /\ rooms = <<>>
    /\ autoYes = FALSE
    /\ csvDirOk = FALSE
    /\ BuilderFresh
    /\ files = NoFiles
    /\ log = <<>>
    /\ RiffleIdle

\* The caller spells the second name another way.
Respell ==
    /\ pc = "lookup"
    /\ \E s \in Respellings(room_b) :
         /\ Len(s) <= MaxNameLen
         /\ room_b' = s
    /\ UNCHANGED <<pc, files, log, buildVars, riffleVars, room_a, position>>

\* _get_crop_position(room_a) and _get_crop_position(room_b)
LookupCall ==
    /\ pc = "lookup"
    /\ position' = <<GetCropPosition(cropsFile, room_a),
                     GetCropPosition(cropsFile, room_b)>>
    /\ pc' = "looked_up"
    /\ UNCHANGED <<files, log, buildVars, riffleVars, room_a, room_b>>

NextLookup == Respell \/ LookupCall

SpecLookup == InitLookup /\ [][NextLookup]_vars

\* A text as the normalisation leaves it: single spaces between its words,
\* none at its ends, no other whitespace, straight quotes only.
IsNormal(s) ==
    /\ \A i \in 1..Len(s) : s[i] \notin {TAB, RSQUOTE, LDQUOTE, RDQUOTE}
    /\ s # <<>> => s[1] # SP /\ s[Len(s)] # SP
    /\ \A i \in 1..(Len(s) - 1) : ~(s[i] = SP /\ s[i + 1] = SP)

\* C6: two spellings of a room name that differ only in whitespace runs,
\* whitespace at the ends and the form of the quotes are found at the same
\* row or both not found; the row found has the same normalised name; the
\* normalisation yields a normal text and leaves a normal text as it is.
C6_NormalisedLookup ==
    /\ pc = "looked_up"
       => /\ position[1] = position[2]
          /\ position[1].ok
             => Normalise(cropsFile[position[1].idx + 1].name)
                    = Normalise(room_a)
    /\ IsNormal(Normalise(room_b))
    /\ Normalise(Normalise(room_b)) = Normalise(room_b)
    /\ IsNormal(room_b) => Normalise(room_b) = room_b

\* A name with a curly apostrophe and one with a straight apostrophe and a
\* tab were both found at the seventh row of the table.
C6_Witness ==
    /\ pc = "looked_up"
    /\ room_a = <<"a", SP, RSQUOTE>>
    /\ room_b = <<"a", TAB, APOS>>
    /\ position[1].ok
    /\ position[1].idx = 6

----------------------------------------------------------------------------
(* More claims about the build.                                            *)

\* The configuration has an error the build can meet: the CSV data
\* directory is missing, or a tab has no or several matching plan PDFs.
ConfigurationError ==
    \/ ~csvDirOk
    \/ \E i \in 1..Len(Tabs) : Cardinality(MatchingFiles(planDir, Tabs[i])) # 1

\* C11: with a configuration error, nothing is ever cropped, interleaved or
\* rendered: no working file is written before the run aborts.
C11_ConfigErrorsFirst ==
    ConfigurationError
    => /\ files = NoFiles
       /\ cropped_files = EmptyDict
       /\ ~Interleaved
       /\ room_data_files = EmptyDict

\* The build is about to start: the crop table and the rooms are those of
\* the whole run, which never writes them.
Started == pc = "find"

\* The plan pages of a document.
PlanPagesOf(doc) == {doc[k] : k \in {j \in 1..Len(doc) : doc[j].kind = "plan"}}

\* C13: in every crop table (looked at as the run starts), a name several
\* rows normalise to is found at the first of them; the
\* plan pages of the final document are crops made for the first row of a
\* configured room, never for a later duplicate row, and the slot printed
\* for a room is that of its first row.
C13_FirstDuplicateWins ==
    /\ Started
       => \A name \in RoomNames :
            RowsOf(name) # {}
            => GetCropPosition(cropsFile, name)
                   = [ok |-> TRUE, idx |-> Min(RowsOf(name)) - 1]
    /\ Assembled
       => /\ \A p \in PlanPagesOf(files[OutputPath]) :
               \E i \in 1..Len(rooms) :
                   /\ RowsOf(rooms[i].name) # {}
                   /\ p = CropOfRow(p.of,
                                    cropsFile[Min(RowsOf(rooms[i].name))])
          /\ \A k \in 1..Len(log) :
               log[k].msg = "added_plan"
               => log[k].n = Min(RowsOf(log[k].name)) - 1

\* A room with two rows, for different source pages, was assembled.
C13_Witness ==
    /\ pc = "done"
    /\ RowsOf(RoomHall) = {1, 2}
    /\ cropsFile[1].page # cropsFile[2].page
    /\ \E i \in 1..Len(rooms) : rooms[i].name = RoomHall
    /\ PlanPagesOf(files[OutputPath]) # {}

\* Both gates have returned 'proceed', the zone check before the plan check.
BothGatesPassed ==
    /\ Len(gates) = 2
    /\ gates[1].gate = "zones" /\ gates[1].proceed
    /\ gates[2].gate = "plans" /\ gates[2].proceed

\* A gate has returned 'do not proceed'.
Declined == \E k \in 1..Len(gates) : ~gates[k].proceed

\* C14: the assembly starts, and the final document exists, only after both
\* gates returned 'proceed'; once a gate is declined the run is cancelled
\* with status 1 and never writes the final document; a gate declines only
\* after prompting; with auto_yes no gate prompts and each returns
\* 'proceed'.
C14_ConfirmationGates ==
    /\ (pc \in {"combine", "returned", "done"} \/ FileExists(files, OutputPath))
       => BothGatesPassed
    /\ Declined
       => /\ pc \in {"exit", "cancelled"}
          /\ ~FileExists(files, OutputPath)
          /\ ~gates[Len(gates)].proceed
    /\ pc \in {"exit", "cancelled"} => Declined
    /\ pc = "cancelled" => exitStatus = 1
    /\ exitStatus = 0 => BothGatesPassed
    /\ \A k \in 1..Len(gates) : ~gates[k].proceed => gates[k].prompted
    /\ autoYes
       => \A k \in 1..Len(gates) : gates[k].proceed /\ ~gates[k].prompted

\* The user accepted the missing zone data and then declined the missing
\* plan pages: the run ended with status 1.
C14_Witness ==
    /\ pc = "cancelled"
    /\ exitStatus = 1
    /\ Len(gates) = 2
    /\ gates[1].prompted /\ gates[1].proceed
    /\ gates[2].prompted /\ ~gates[2].proceed
    /\ Interleaved
    /\ ~FileExists(files, OutputPath)

\* How many elements of a sequence satisfy a test on the message kind.
CountMsg(out, msg) == Cardinality({k \in 1..Len(out) : out[k].msg = msg})

\* C15: the number of documents handed to riffle_shuffle_pdfs is the number
\* of non-blank lines of the tab list, the multiplier of the assembly, also
\* when a tab is repeated: the interleaved document has that many pages per
\* crop row, and the final document that many plan pages per room found.
C15_TabCountAgreement ==
    /\ Interleaved
       => /\ Len(PdfFilesInTabOrder(Tabs, cropped_files)) = Len(Tabs)
          /\ Len(files[shuffled_plans]) = Len(Tabs) * Len(cropsFile)
    /\ Assembled
       => Cardinality({k \in 1..Len(files[OutputPath]) :
                          files[OutputPath][k].kind = "plan"})
              = Len(Tabs) * CountMsg(log, "added_plan")

\* A pack whose tab list names the same tab twice was assembled: two
\* documents were interleaved for two crop rows.
C15_Witness ==
    /\ pc = "done"
    /\ Len(Tabs) = 2
    /\ Tabs[1] = Tabs[2]
    /\ Len(cropped_files.keys) = 1
    /\ Len(cropsFile) = 2
    /\ Len(files[shuffled_plans]) = 4
    /\ CountMsg(log, "added_plan") = 1

\* C16: sys.stdout is the stream the process started with, in every state
\* of the build: after each call of extract_zone_data, returned or raised,
\* and so whenever a later stage or the error report prints.
C16_StdoutRestored == stdout = SysStdout

\* The configured room names, in configuration order.
ConfiguredNames == [i \in 1..Len(rooms) |-> rooms[i].name]

\* The data pages generated from the i-th room's own name and zone list,
\* then its plan block, for the rooms i, i+1, ... in that order.
RECURSIVE OwnPagesFromRoom(_)
OwnPagesFromRoom(i) ==
    IF i > Len(rooms) THEN <<>>
    ELSE DataPdf(rooms[i].name, rooms[i].zones) \o PlanBlockOf(i)
         \o OwnPagesFromRoom(i + 1)

\* C17: when the configured rooms have pairwise distinct names, the data
\* pages before each room's plan block in the final document are those made
\* from that room's own name and zone list.
C17_RoomDataIdentity ==
    (Assembled /\ Distinct(ConfiguredNames))
    => files[OutputPath] = OwnPagesFromRoom(1)

\* A configuration of the one room `name`.
OneRoom(name) == <<[name |-> name, zones |-> <<>>]>>

\* The plan-page gate has printed a warning that lists the i-th room.
Warned(i) ==
    \E k \in 1..Len(log) :
        /\ log[k].msg = "no_plan_pages_for_rooms"
        /\ Normalise(rooms[i].name) \in log[k].name

\* The assembly has printed `msg` for the i-th room.
Reported(msg, i) ==
    \E k \in 1..Len(log) : log[k].msg = msg /\ log[k].name = rooms[i].name

\* C18: for every crop table and room name (looked at as the run starts),
\* the plan-page check counts the
\* room as missing exactly when _get_crop_position raises for it; in an
\* assembled pack the rooms the gate warned about are exactly those the
\* assembly skipped, and every other room was resolved to a slot.
C18_GateAndAssemblyAgree ==
    /\ Started
       => /\ \A name \in RoomNames :
               (Normalise(name) \in MissingPlanRooms(OneRoom(name), cropsFile))
                   <=> ~GetCropPosition(cropsFile, name).ok
          /\ \A i \in 1..Len(rooms) :
               (Normalise(rooms[i].name) \in MissingPlanRooms(rooms, cropsFile))
                   <=> ~GetCropPosition(cropsFile, rooms[i].name).ok
    /\ Assembled
       => \A i \in 1..Len(rooms) :
            /\ Warned(i) <=> Reported("skipped", i)
            /\ ~Warned(i) <=> Reported("added_plan", i)

\* A pack was assembled in which one room was warned about and skipped and
\* another, written with a tab in the crop table, was resolved.
C18_Witness ==
    /\ pc = "done"
    /\ Len(rooms) = 2
    /\ \E i, j \in 1..2 :
         /\ rooms[i].name = RoomMainHall
         /\ rooms[j].name = RoomMain_Hall
         /\ Warned(j) /\ ~Warned(i)
    /\ \E k \in 1..Len(cropsFile) : cropsFile[k].name = CropMainHall
    /\ CountMsg(log, "skipped") = 1
    /\ CountMsg(log, "added_plan") = 1

----------------------------------------------------------------------------
(* _combine_final_output called on its own, on an interleaved document of  *)
(* any length.                                                             *)

\* The interleaved document handed over: L pages, told apart by number.
ShuffledOfLength(L) == Document(ShuffledPath, L)

InitCombine ==
    /\ pc = "combine"
    /\ tabsFile \in SeqUpTo({TabA}, MaxTabs)
    /\ planDir = {}
    /\ cropsFile \in SeqUpTo(GoodRows, MaxRows)
    /\ rooms \in SeqUpTo(RoomConfigs, MaxRooms)
    /\ autoYes = FALSE
    /\ csvDirOk = TRUE
    /\ plan_pdfs = EmptyDict
    /\ cropped_files = EmptyDict
    /\ shuffled_plans = ShuffledPath
    /\ \E L \in 0..MaxShuffled :
         LET d == CreateRoomDataPagesFrom(rooms, tabsFile, csvDirOk, NoFiles,
                                          EmptyDict, <<>>, SysStdout)
         IN  /\ files = WriteFile(d.fs, ShuffledPath, ShuffledOfLength(L))
             /\ room_data_files = d.room_data_files
    /\ raised = "none"
    /\ exitStatus = NotExited
    /\ gates = <<>>
    /\ stdout = SysStdout
    /\ log = <<>>
    /\ RiffleIdle
    /\ LookupIdle

NextCombine == CombineFinalOutput

SpecCombine == InitCombine /\ [][NextCombine]_vars

\* The pages of the i-th room's block that the interleaved document has:
\* those with index in [s*N, s*N + N) below its length, in increasing order.
ClampedBlockOf(i) ==
    IF RowsOf(rooms[i].name) = {} THEN <<>>
    ELSE LET s == Min(RowsOf(rooms[i].name)) - 1
             N == Len(Tabs)
             L == Len(files[shuffled_plans])
             last == IF s * N + N < L THEN s * N + N ELSE L
         IN  [k \in 1..(last - s * N) |-> files[shuffled_plans][s * N + k]]

RECURSIVE ClampedPagesFromRoom(_)
ClampedPagesFromRoom(i) ==
    IF i > Len(rooms) THEN <<>>
    ELSE DataPagesOf(i) \o ClampedBlockOf(i) \o ClampedPagesFromRoom(i + 1)

\* C12: whatever the length L of the interleaved document, the assembly
\* returns, and the plan pages it appends for a room at slot s are exactly
\* the pages s*N .. s*N + N - 1 that lie below L, in increasing order (none
\* when s*N >= L).
C12_DefensiveTruncation ==
    pc = "returned"
    => /\ FileExists(files, OutputPath)
       /\ files[OutputPath] = ClampedPagesFromRoom(1)
       /\ \A i \in 1..Len(rooms) :
            Len(ClampedBlockOf(i)) <= Len(Tabs)

\* A room at slot 1 of a two-tab pack was assembled from an interleaved
\* document of three pages: one plan page instead of two.
C12_Witness ==
    /\ pc = "returned"
    /\ Len(Tabs) = 2
    /\ Len(files[shuffled_plans]) = 3
    /\ Len(rooms) = 1
    /\ RowsOf(rooms[1].name) = {2}
    /\ Len(files[OutputPath]) = Len(DataPagesOf(1)) + 1
    /\ files[OutputPath][Len(files[OutputPath])] = PlanPage(ShuffledPath, 3)

====
